---- MODULE Spec2Model ----
(***************************************************************************)
(* A model of the collaborative-editing core of the real-time document     *)
(* editor: the OperationalTransform functions and the DocumentManager      *)
(* session (src/unnamed/part_006), the version / branch / merge store      *)
(* (src/lib/db/document-queries.ts and the API routes that call it) and    *)
(* the socket coordinator (src/lib/socket/server.ts).                      *)
(*                                                                         *)
(* Strings are sequences of one-character strings, so that slicing and     *)
(* splicing are computed, not assumed.                                     *)
(***************************************************************************)
EXTENDS Integers, Sequences, FiniteSets, TLC

VARIABLES
    ot,                 \* SpecOT: one evaluation of transform on (s, a, b)
    content,            \* DocumentManager.content
    version,            \* DocumentManager.version
    pendingOperations,  \* DocumentManager.pendingOperations, in Map insertion order
    call,               \* DocumentManager: the last call and what it returned
    calls,              \* DocumentManager: number of calls made so far
    sessions,           \* two DocumentManagers and the arrays their callers pass
    documents,          \* store: the documents row (currentVersion, content)
    documentVersions,   \* store: table document_versions, in insertion order
    documentBranches,   \* store: table document_branches, in insertion order
    documentMerges,     \* store: table document_merges, in insertion order
    reqs,               \* store: the HTTP requests started, each with its position
    socketData,         \* socket server: socket.data of every connection
    rooms,              \* socket server: the documents whose room a connection is in
    connected,          \* socket server: whether the connection is open
    authProcessed,      \* socket server: an authenticate message was handled on it
    users,              \* Redis document:<id>:users, the presence hash of a document
    documentOperations, \* Redis document:<id>:operations, newest first
    branches,           \* Redis document:<id>:branches, the branch hash of a document
    emits,              \* socket server: what the last handled message emitted, in order
    handled,            \* socket server: number of messages handled so far
    cursorReads,        \* socket server: updateUserCursor calls waiting after their hGet
    client              \* socket client: a CollaborativeSocketClient and its authenticate calls

dmVars == <<content, version, pendingOperations, call, calls, sessions>>
storeVars == <<documents, documentVersions, documentBranches, documentMerges, reqs>>
socketVars == <<socketData, rooms, connected, authProcessed, users, documentOperations,
                branches, emits, handled, cursorReads, client>>
vars == <<ot, content, version, pendingOperations, call, calls, sessions,
          documents, documentVersions, documentBranches, documentMerges, reqs,
          socketData, rooms, connected, authProcessed, users, documentOperations,
          branches, emits, handled, cursorReads, client>>

(***************************************************************************)
(* Bounds of the model.                                                    *)
(***************************************************************************)
MaxLen == 2        \* longest base string
MaxOps == 3        \* longest operation sequence drawn as an input
MaxCalls == 2      \* DocumentManager calls in one behaviour
MaxReqs == 3       \* store requests in one behaviour
MaxMsgs == 4       \* socket messages handled in one behaviour
MaxDiffLen == 3    \* longest string given to diff
MaxAuthCalls == 2   \* authenticate calls made on the socket client
MaxSessionCalls == 3  \* calls made on the two DocumentManagers together

Min(x, y) == IF x <= y THEN x ELSE y
Max(x, y) == IF x >= y THEN x ELSE y

\* The base strings: prefixes of "abc...", every character distinct, so that
\* two results differ whenever they keep or drop different positions.
Alphabet == <<"a", "b", "c", "d", "e">>
BaseStrings == { SubSeq(Alphabet, 1, n) : n \in 0..MaxLen }

\* The texts a client may insert (lengths 1 and 2).
Texts == { <<"x">>, <<"y", "z">> }

(***************************************************************************)
(* TextOperation (part_006:4-8).  count is present on retain and delete,   *)
(* text on insert; the code reads a missing field as undefined.            *)
(***************************************************************************)
Retain(n) == [type |-> "retain", count |-> n]
Insert(t) == [type |-> "insert", text |-> t]
Delete(n) == [type |-> "delete", count |-> n]

TextOperation ==
    { Retain(n) : n \in 1..MaxLen } \cup { Delete(n) : n \in 1..MaxLen }
        \cup { Insert(t) : t \in Texts }

\* op.count || 0
CountOf(op) == IF "count" \in DOMAIN op THEN op.count ELSE 0
\* op.text?.length || 0
TextLen(op) == IF "text" \in DOMAIN op THEN Len(op.text) ELSE 0

\* String.prototype.slice(from, to) for non-negative arguments: both ends
\* are clamped to the length, and an empty range is the empty string.
Slice(str, from, to) ==
    LET f == Min(from, Len(str))
        t == Min(to, Len(str))
    IN  IF f >= t THEN <<>> ELSE SubSeq(str, f + 1, t)

SliceFrom(str, from) == Slice(str, from, Len(str))

(***************************************************************************)
(* OperationalTransform.apply (part_006:16-40).                            *)
(***************************************************************************)
\* A variant of the loop body in which a delete also advances the offset.
ApplyOpDeleteAdvances(st, op) ==
    IF op.type = "retain" THEN [result |-> st.result, offset |-> st.offset + CountOf(op)]
    ELSE IF op.type = "insert" THEN
        IF TextLen(op) > 0
        THEN [result |-> Slice(st.result, 0, st.offset) \o op.text \o SliceFrom(st.result, st.offset),
              offset |-> st.offset + Len(op.text)]
        ELSE st
    ELSE IF CountOf(op) > 0
        THEN [result |-> Slice(st.result, 0, st.offset) \o SliceFrom(st.result, st.offset + op.count),
              offset |-> st.offset + op.count]
        ELSE st

\* One iteration of the loop body: st is (result, offset).
ApplyOp(st, op) ==
    IF op.type = "retain" THEN [result |-> st.result, offset |-> st.offset + CountOf(op)]
    ELSE IF op.type = "insert" THEN
        IF TextLen(op) > 0
        THEN [result |-> Slice(st.result, 0, st.offset) \o op.text \o SliceFrom(st.result, st.offset),
              offset |-> st.offset + Len(op.text)]
        ELSE st
    ELSE IF CountOf(op) > 0
        THEN [result |-> Slice(st.result, 0, st.offset) \o SliceFrom(st.result, st.offset + op.count),
              offset |-> st.offset]
        ELSE st

RECURSIVE ApplyLoop(_, _, _)
ApplyLoop(st, operations, i) ==
    IF i > Len(operations) THEN st.result
    ELSE ApplyLoop(ApplyOp(st, operations[i]), operations, i + 1)

apply(str, operations) == ApplyLoop([result |-> str, offset |-> 0], operations, 1)

(***************************************************************************)
(* OperationalTransform.transform (part_006:42-113).  pos1 and pos2 are    *)
(* set once and never advanced.  The retain/retain case overwrites         *)
(* op1[i1] and op2[i2] in the caller's arrays, so the arrays as they are   *)
(* left are part of the result.                                            *)
(***************************************************************************)
pos1 == 0
pos2 == 0

\* One iteration of the while loop; st holds op1, op2, i1, i2 (1-based),
\* transformed1 and transformed2.
TransformStep(st) ==
    LET op1 == st.op1
        op2 == st.op2
        i1 == st.i1
        i2 == st.i2
    IN
    IF i1 > Len(op1) THEN
        [st EXCEPT !.transformed2 = Append(@, op2[i2]), !.i2 = i2 + 1]
    ELSE IF i2 > Len(op2) THEN
        [st EXCEPT !.transformed1 = Append(@, op1[i1]), !.i1 = i1 + 1]
    ELSE
    LET o1 == op1[i1]
        o2 == op2[i2]
    IN
    IF o1.type = "retain" /\ o2.type = "retain" THEN
        LET minCount == Min(CountOf(o1), CountOf(o2)) IN
        [st EXCEPT
            !.transformed1 = Append(@, Retain(minCount)),
            !.transformed2 = Append(@, Retain(minCount)),
            !.op1 = IF CountOf(o1) > minCount
                    THEN [op1 EXCEPT ![i1] = Retain(CountOf(o1) - minCount)] ELSE op1,
            !.i1 = IF CountOf(o1) > minCount THEN i1 ELSE i1 + 1,
            !.op2 = IF CountOf(o2) > minCount
                    THEN [op2 EXCEPT ![i2] = Retain(CountOf(o2) - minCount)] ELSE op2,
            !.i2 = IF CountOf(o2) > minCount THEN i2 ELSE i2 + 1]
    ELSE IF o1.type = "insert" /\ o2.type = "retain" THEN
        [st EXCEPT
            !.transformed1 = Append(@, o1),
            !.transformed2 = Append(@, Retain(TextLen(o1))),
            !.i1 = i1 + 1]
    ELSE IF o1.type = "retain" /\ o2.type = "insert" THEN
        [st EXCEPT
            !.transformed1 = Append(@, Retain(TextLen(o2))),
            !.transformed2 = Append(@, o2),
            !.i2 = i2 + 1]
    ELSE IF o1.type = "insert" /\ o2.type = "insert" THEN
        IF pos1 <= pos2 THEN
            [st EXCEPT
                !.transformed1 = Append(@, o1),
                !.transformed2 = Append(@, Retain(TextLen(o1))),
                !.i1 = i1 + 1]
        ELSE
            [st EXCEPT
                !.transformed1 = Append(@, Retain(TextLen(o2))),
                !.transformed2 = Append(@, o2),
                !.i2 = i2 + 1]
    ELSE
        [st EXCEPT
            !.transformed1 = Append(@, o1),
            !.transformed2 = Append(@, o2),
            !.i1 = i1 + 1,
            !.i2 = i2 + 1]

RECURSIVE TransformLoop(_)
TransformLoop(st) ==
    IF st.i1 > Len(st.op1) /\ st.i2 > Len(st.op2) THEN st
    ELSE TransformLoop(TransformStep(st))

\* The returned pair is (transformed1, transformed2); op1 and op2 are the
\* argument arrays as the call leaves them.
transform(op1, op2) ==
    TransformLoop([op1 |-> op1, op2 |-> op2, i1 |-> 1, i2 |-> 1,
                   transformed1 |-> <<>>, transformed2 |-> <<>>])

(***************************************************************************)
(* Inputs: operation sequences, and those well-formed for a string (their  *)
(* retain and delete counts sum to its length).                            *)
(***************************************************************************)
OpSeqs == UNION { [1..n -> TextOperation] : n \in 1..MaxOps }

RECURSIVE SourceLenFrom(_, _)
SourceLenFrom(operations, i) ==
    IF i > Len(operations) THEN 0
    ELSE (IF operations[i].type = "insert" THEN 0 ELSE CountOf(operations[i]))
            + SourceLenFrom(operations, i + 1)

\* Sum of the retain and delete counts of a sequence.
SourceLen(operations) == SourceLenFrom(operations, 1)

WellFormed(str, operations) == SourceLen(operations) = Len(str)

WellFormedFor(str) == { o \in OpSeqs : WellFormed(str, o) }

HasDelete(operations) == \E i \in 1..Len(operations) : operations[i].type = "delete"

(***************************************************************************)
(* SpecOT: transform evaluated on every base string and every pair of      *)
(* sequences well-formed for it.                                           *)
(***************************************************************************)
NoOps == <<>>

DMIdle ==
    /\ content = <<>>
    /\ version = 0
    /\ pendingOperations = <<>>
    /\ call = [kind |-> "none"]
    /\ calls = 0
    /\ sessions = [pc |-> "idle"]

OTIdle == ot = [pc |-> "idle"]

Conns == {"c1", "c2"}
Docs == {"d1", "d2"}
Users == {"u1", "u2"}
NoUser == ""        \* socket.data.userId unset, or set to a falsy id
NoDoc == ""         \* socket.data.documentId unset

NoCursor == -1      \* DocumentUser.cursor unset
NoVersion == -1     \* an operation object without a version field
CursorPositions == {0}
SocketBranchNames == {"main", "feature"}
FromVersions == {0}

\* A field of the presence hash (a DocumentUser, server.ts:11-21) and a field
\* of the branch hash (server.ts:343-350), absent or present.
NoEntry == [present |-> FALSE, cursor |-> NoCursor]
NoBranch == [present |-> FALSE, createdBy |-> NoUser, fromVersion |-> 0]

\* No updateUserCursor call of the connection is between its hGet and its
\* hSet.
NoRead == [waiting |-> FALSE, doc |-> NoDoc, userId |-> NoUser, found |-> FALSE,
           position |-> NoCursor]

\* No CollaborativeSocketClient has been constructed.
NoClient == [made |-> FALSE, socket |-> "null", isAuthenticated |-> FALSE,
             awaited |-> 0, calls |-> <<>>]

\* Every connection open and fresh, Redis empty.
SocketFresh ==
    /\ socketData = [c \in Conns |-> [userId |-> NoUser, documentId |-> NoDoc]]
    /\ rooms = [c \in Conns |-> {}]
    /\ connected = [c \in Conns |-> TRUE]
    /\ authProcessed = [c \in Conns |-> FALSE]
    /\ users = [d \in Docs |-> [u \in Users |-> NoEntry]]
    /\ documentOperations = [d \in Docs |-> <<>>]
    /\ branches = [d \in Docs |-> [b \in SocketBranchNames |-> NoBranch]]
    /\ emits = <<>>
    /\ handled = 0
    /\ cursorReads = [c \in Conns |-> NoRead]
    /\ client = NoClient

StoreIdle ==
    /\ documents = [currentVersion |-> 1, content |-> ""]
    /\ documentVersions = <<>>
    /\ documentBranches = <<>>
    /\ documentMerges = <<>>
    /\ reqs = <<>>

InitOT ==
    /\ \E s \in BaseStrings : \E a \in WellFormedFor(s) : \E b \in WellFormedFor(s) :
          ot = [pc |-> "start", s |-> s, a |-> a, b |-> b]
    /\ DMIdle
    /\ StoreIdle
    /\ SocketFresh

\* (a', b') = transform(a, b), then both orders of application.
Transform ==
    /\ ot.pc = "start"
    /\ LET r == transform(ot.a, ot.b) IN
       ot' = [pc |-> "done", s |-> ot.s, a |-> ot.a, b |-> ot.b,
              a1 |-> r.transformed1, b1 |-> r.transformed2,
              left |-> apply(apply(ot.s, ot.a), r.transformed2),
              right |-> apply(apply(ot.s, ot.b), r.transformed1)]
    /\ UNCHANGED <<dmVars, storeVars, socketVars>>

NextOT == Transform

SpecOT == InitOT /\ [][NextOT]_vars

(***************************************************************************)
(* SpecApply: apply evaluated on every base string and every sequence      *)
(* well-formed for it.                                                     *)
(***************************************************************************)
InitApply ==
    /\ \E s \in BaseStrings : \E operations \in WellFormedFor(s) :
          ot = [pc |-> "apply", s |-> s, ops |-> operations]
    /\ DMIdle
    /\ StoreIdle
    /\ SocketFresh

Apply ==
    /\ ot.pc = "apply"
    /\ ot' = [pc |-> "applyDone", s |-> ot.s, ops |-> ot.ops,
              result |-> apply(ot.s, ot.ops)]
    /\ UNCHANGED <<dmVars, storeVars, socketVars>>

NextApply == Apply

SpecApply == InitApply /\ [][NextApply]_vars

(***************************************************************************)
(* OperationalTransform.diff (part_006:185-226): common prefix, common     *)
(* suffix of what is left, then retain / delete / insert / retain.         *)
(***************************************************************************)
\* while (i < minLength && oldContent[i] === newContent[i]) i++
RECURSIVE CommonPrefix(_, _, _)
CommonPrefix(oldContent, newContent, i) ==
    IF i < Min(Len(oldContent), Len(newContent)) /\ oldContent[i + 1] = newContent[i + 1]
    THEN CommonPrefix(oldContent, newContent, i + 1)
    ELSE i

\* A variant of the suffix loop whose bound forgets the prefix: j < minLength.
RECURSIVE CommonSuffixUnbounded(_, _, _, _)
CommonSuffixUnbounded(oldContent, newContent, i, j) ==
    IF j < Min(Len(oldContent), Len(newContent))
       /\ oldContent[Len(oldContent) - j] = newContent[Len(newContent) - j]
    THEN CommonSuffixUnbounded(oldContent, newContent, i, j + 1)
    ELSE j

\* while (j < minLength - i && oldContent[oldContent.length - 1 - j] ===
\*        newContent[newContent.length - 1 - j]) j++
RECURSIVE CommonSuffix(_, _, _, _)
CommonSuffix(oldContent, newContent, i, j) ==
    IF j < Min(Len(oldContent), Len(newContent)) - i
       /\ oldContent[Len(oldContent) - j] = newContent[Len(newContent) - j]
    THEN CommonSuffix(oldContent, newContent, i, j + 1)
    ELSE j

diff(oldContent, newContent) ==
    LET i == CommonPrefix(oldContent, newContent, 0)
        j == CommonSuffix(oldContent, newContent, i, 0)
        deleteCount == Len(oldContent) - i - j
        insertText == Slice(newContent, i, Len(newContent) - j)
    IN  (IF i > 0 THEN <<Retain(i)>> ELSE <<>>)
            \o (IF deleteCount > 0 THEN <<Delete(deleteCount)>> ELSE <<>>)
            \o (IF Len(insertText) > 0 THEN <<Insert(insertText)>> ELSE <<>>)
            \o (IF j > 0 THEN <<Retain(j)>> ELSE <<>>)

\* The strings given to diff: every string over two letters, so that
\* prefixes and suffixes can repeat and overlap.
DiffAlphabet == {"a", "b"}
DiffStrings == UNION { [1..n -> DiffAlphabet] : n \in 0..MaxDiffLen }

InitDiff ==
    /\ \E s1 \in DiffStrings : \E s2 \in DiffStrings :
          ot = [pc |-> "diff", oldContent |-> s1, newContent |-> s2]
    /\ DMIdle
    /\ StoreIdle
    /\ SocketFresh

\* ops = diff(s1, s2), then apply(s1, ops)
Diff ==
    /\ ot.pc = "diff"
    /\ LET ops == diff(ot.oldContent, ot.newContent) IN
       ot' = [pc |-> "diffDone", oldContent |-> ot.oldContent,
              newContent |-> ot.newContent, ops |-> ops,
              result |-> apply(ot.oldContent, ops)]
    /\ UNCHANGED <<dmVars, storeVars, socketVars>>

NextDiff == Diff

SpecDiff == InitDiff /\ [][NextDiff]_vars

(***************************************************************************)
(* OperationalTransform.compose (part_006:115-151).                        *)
(***************************************************************************)
\* One iteration of the while loop; st holds i1, i2 (1-based) and result.
ComposeStep(ops1, ops2, st) ==
    IF st.i1 > Len(ops1) THEN
        [st EXCEPT !.result = Append(@, ops2[st.i2]), !.i2 = st.i2 + 1]
    ELSE IF st.i2 > Len(ops2) THEN
        [st EXCEPT !.result = Append(@, ops1[st.i1]), !.i1 = st.i1 + 1]
    ELSE
        LET op1 == ops1[st.i1]
            op2 == ops2[st.i2]
            pushed ==
                IF op1.type = "retain" /\ op2.type = "retain"
                THEN <<Retain(Min(CountOf(op1), CountOf(op2)))>>
                ELSE IF op1.type = "insert" /\ op2.type = "retain"
                THEN <<op1>>
                ELSE <<op1, op2>>
        IN  [result |-> st.result \o pushed, i1 |-> st.i1 + 1, i2 |-> st.i2 + 1]

RECURSIVE ComposeLoop(_, _, _)
ComposeLoop(ops1, ops2, st) ==
    IF st.i1 > Len(ops1) /\ st.i2 > Len(ops2) THEN st.result
    ELSE ComposeLoop(ops1, ops2, ComposeStep(ops1, ops2, st))

compose(ops1, ops2) == ComposeLoop(ops1, ops2, [result |-> <<>>, i1 |-> 1, i2 |-> 1])

\* Every base string, every a well-formed for it and every b well-formed
\* for apply(s, a).
InitCompose ==
    /\ \E s \in BaseStrings : \E a \in WellFormedFor(s) :
          \E b \in WellFormedFor(apply(s, a)) :
             ot = [pc |-> "compose", s |-> s, a |-> a, b |-> b]
    /\ DMIdle
    /\ StoreIdle
    /\ SocketFresh

\* compose(a, b) applied in one pass, and a then b applied in two.
Compose ==
    /\ ot.pc = "compose"
    /\ LET c == compose(ot.a, ot.b) IN
       ot' = [pc |-> "composeDone", s |-> ot.s, a |-> ot.a, b |-> ot.b,
              composed |-> c,
              onePass |-> apply(ot.s, c),
              twoPasses |-> apply(apply(ot.s, ot.a), ot.b)]
    /\ UNCHANGED <<dmVars, storeVars, socketVars>>

NextCompose == Compose

SpecCompose == InitCompose /\ [][NextCompose]_vars

(***************************************************************************)
(* createInsertOp and createDeleteOp (part_006:153-183): the sequences a   *)
(* client builds for an edit at `position` of a text it believes to be     *)
(* contentLength long.                                                     *)
(***************************************************************************)
createInsertOp(position, text, contentLength) ==
    (IF position > 0 THEN <<Retain(position)>> ELSE <<>>)
        \o <<Insert(text)>>
        \o (IF position < contentLength THEN <<Retain(contentLength - position)>> ELSE <<>>)

createDeleteOp(position, length, contentLength) ==
    (IF position > 0 THEN <<Retain(position)>> ELSE <<>>)
        \o <<Delete(length)>>
        \o (IF position + length < contentLength
            THEN <<Retain(contentLength - position - length)>> ELSE <<>>)

(***************************************************************************)
(* DocumentManager (part_006:229-296).  pendingOperations is a Map: a      *)
(* sequence of entries in insertion order; set() on a key that is present  *)
(* keeps its place.                                                        *)
(***************************************************************************)
Clients == {"A", "B"}

\* What a caller may pass as `operations`: an array built by createInsertOp
\* or createDeleteOp for a content length the client believes in (which need
\* not be the session's), or a payload that is not an array at all.
ClientOpSeqs ==
    { createInsertOp(p, t, n) : <<p, t, n>> \in
        { x \in (0..MaxLen) \X Texts \X (0..MaxLen) : x[1] <= x[3] } }
    \cup
    { createDeleteOp(x[1], x[2], x[3]) : x \in
        { y \in (0..MaxLen) \X (1..MaxLen) \X (0..MaxLen) : y[1] + y[2] <= y[3] } }

Payloads ==
    { [isArray |-> TRUE, ops |-> o] : o \in ClientOpSeqs }
        \cup { [isArray |-> FALSE, ops |-> <<>>] }

PendingIndex(pending, clientId) ==
    { i \in 1..Len(pending) : pending[i].clientId = clientId }

\* Map.prototype.set
MapSet(pending, clientId, ops) ==
    IF PendingIndex(pending, clientId) # {}
    THEN [i \in 1..Len(pending) |->
            IF pending[i].clientId = clientId
            THEN [clientId |-> clientId, ops |-> ops] ELSE pending[i]]
    ELSE Append(pending, [clientId |-> clientId, ops |-> ops])

\* Map.prototype.delete
MapDelete(pending, clientId) ==
    SelectSeq(pending, LAMBDA e : e.clientId # clientId)

\* The for loop of applyOperation (part_006:257-262), from entry i on:
\* the incoming sequence is transformed against every other client's entry
\* in turn, and transform leaves each such entry's array as it rewrote it.
RECURSIVE TransformAgainstPending(_, _, _, _)
TransformAgainstPending(clientId, transformedOps, pending, i) ==
    IF i > Len(pending) THEN [transformedOps |-> transformedOps, pending |-> pending]
    ELSE IF pending[i].clientId = clientId
        THEN TransformAgainstPending(clientId, transformedOps, pending, i + 1)
        ELSE LET r == transform(transformedOps, pending[i].ops) IN
             TransformAgainstPending(clientId, r.transformed1,
                 [pending EXCEPT ![i].ops = r.op2], i + 1)

\* The try block of applyOperation (part_006:254-276) on an array.
ApplyOperationOk(clientId, operations) ==
    LET t == TransformAgainstPending(clientId, operations, pendingOperations, 1)
        newContent == apply(content, t.transformedOps)
    IN  /\ content' = newContent
        /\ version' = version + 1
        /\ pendingOperations' = MapSet(t.pending, clientId, t.transformedOps)
        /\ call' = [kind |-> "apply", clientId |-> clientId, isArray |-> TRUE,
                    operations |-> operations,
                    before |-> [content |-> content, version |-> version],
                    success |-> TRUE, transformedOps |-> t.transformedOps,
                    newVersion |-> version + 1, newContent |-> newContent]

\* A variant of the failure branch: the version is advanced before apply throws.
ApplyOperationThrowsVersionBumped(clientId) ==
    /\ UNCHANGED <<content, pendingOperations>>
    /\ version' = version + 1
    /\ call' = [kind |-> "apply", clientId |-> clientId, isArray |-> FALSE,
                operations |-> <<>>,
                before |-> [content |-> content, version |-> version],
                success |-> FALSE, transformedOps |-> <<>>,
                newVersion |-> version + 1, newContent |-> content]

\* The catch block (part_006:277-283): a payload that is not iterable makes
\* transform (op1.length) or apply (for..of) throw before anything is
\* assigned.
ApplyOperationThrows(clientId) ==
    /\ UNCHANGED <<content, version, pendingOperations>>
    /\ call' = [kind |-> "apply", clientId |-> clientId, isArray |-> FALSE,
                operations |-> <<>>,
                before |-> [content |-> content, version |-> version],
                success |-> FALSE, transformedOps |-> <<>>,
                newVersion |-> version, newContent |-> content]

applyOperation(clientId, payload) ==
    /\ calls < MaxCalls
    /\ calls' = calls + 1
    /\ IF payload.isArray
       THEN ApplyOperationOk(clientId, payload.ops)
       ELSE ApplyOperationThrows(clientId)
    /\ UNCHANGED <<sessions, ot, storeVars, socketVars>>

acknowledgeOperation(clientId) ==
    /\ calls < MaxCalls
    /\ calls' = calls + 1
    /\ pendingOperations' = MapDelete(pendingOperations, clientId)
    /\ call' = [kind |-> "ack", clientId |-> clientId,
                before |-> [content |-> content, version |-> version]]
    /\ UNCHANGED <<content, version, sessions, ot, storeVars, socketVars>>

\* new DocumentManager(initialContent, initialVersion)
InitDM ==
    /\ content \in BaseStrings
    /\ version = 0
    /\ pendingOperations = <<>>
    /\ call = [kind |-> "none"]
    /\ calls = 0
    /\ sessions = [pc |-> "idle"]
    /\ OTIdle
    /\ StoreIdle
    /\ SocketFresh

NextDM ==
    \/ \E c \in Clients, p \in Payloads : applyOperation(c, p)
    \/ \E c \in Clients : acknowledgeOperation(c)

SpecDM == InitDM /\ [][NextDM]_vars

(***************************************************************************)
(* Two DocumentManagers, one per document, in one process.  An array is an *)
(* object: sessions.heap holds every operation array by identity (its      *)
(* index), a manager's pendingOperations holds references, and a caller    *)
(* may pass an array it built for the call or one it already holds.        *)
(* transform overwrites elements of both arrays it is given in place       *)
(* (part_006:74, 80), so what it does to an array is seen through every    *)
(* reference to it.                                                        *)
(***************************************************************************)
\* The arrays a caller builds.
SessionOpSeqs ==
    { <<Retain(1)>>, <<Retain(2)>>, <<Insert(<<"x">>)>>,
      <<Retain(1), Insert(<<"x">>), Retain(1)>> }

\* References held by other clients' pending entries.
OtherPendingRefs(pending, clientId) ==
    { pending[i].ops : i \in { j \in 1..Len(pending) : pending[j].clientId # clientId } }

\* The for loop of applyOperation (part_006:257-262) over references:
\* transform leaves both of its argument arrays as it rewrote them and
\* returns a new array, which becomes transformedOps.
RECURSIVE SessionTransform(_, _, _, _, _)
SessionTransform(clientId, transformedOps, pending, heap, i) ==
    IF i > Len(pending) THEN [transformedOps |-> transformedOps, heap |-> heap]
    ELSE IF pending[i].clientId = clientId
        THEN SessionTransform(clientId, transformedOps, pending, heap, i + 1)
        ELSE LET r == transform(heap[transformedOps], heap[pending[i].ops])
                 rewritten == [heap EXCEPT ![transformedOps] = r.op1,
                                           ![pending[i].ops] = r.op2]
             IN  SessionTransform(clientId, Len(rewritten) + 1, pending,
                                  Append(rewritten, r.transformed1), i + 1)

\* applyOperation on the manager of document d with the array `ref` of heap.
SessionApplyTo(d, clientId, heap, ref) ==
    LET m == sessions.managers[d]
        t == SessionTransform(clientId, ref, m.pendingOperations, heap, 1)
    IN  sessions' = [sessions EXCEPT
            !.heap = t.heap,
            !.calls = @ + 1,
            !.managers[d] =
                [content |-> apply(m.content, t.heap[t.transformedOps]),
                 version |-> m.version + 1,
                 pendingOperations |->
                     MapSet(m.pendingOperations, clientId, t.transformedOps)]]

\* manager(d).applyOperation(clientId, operations, v) with an array built
\* for this call.
SessionApplyNew(d, clientId, operations) ==
    /\ sessions.calls < MaxSessionCalls
    /\ SessionApplyTo(d, clientId, Append(sessions.heap, operations),
                      Len(sessions.heap) + 1)
    /\ UNCHANGED <<content, version, pendingOperations, call, calls>>
    /\ UNCHANGED <<ot, storeVars, socketVars>>

\* manager(d).applyOperation(clientId, operations, v) with an array the
\* caller already holds: one it passed before, or a transformedOps it got
\* back.  (An array that another client's pending entry of the same manager
\* refers to is left out: transform would then be given one array twice.)
SessionApplyHeld(d, clientId, ref) ==
    /\ sessions.calls < MaxSessionCalls
    /\ ref \in 1..Len(sessions.heap)
    /\ ref \notin OtherPendingRefs(sessions.managers[d].pendingOperations, clientId)
    /\ SessionApplyTo(d, clientId, sessions.heap, ref)
    /\ UNCHANGED <<content, version, pendingOperations, call, calls>>
    /\ UNCHANGED <<ot, storeVars, socketVars>>

\* manager(d).applyOperation with a payload that is not iterable: the catch
\* block (part_006:277-283).
SessionApplyThrows(d, clientId) ==
    /\ sessions.calls < MaxSessionCalls
    /\ sessions' = [sessions EXCEPT !.calls = @ + 1]
    /\ UNCHANGED <<content, version, pendingOperations, call, calls>>
    /\ UNCHANGED <<ot, storeVars, socketVars>>

\* manager(d).acknowledgeOperation(clientId)
SessionAcknowledge(d, clientId) ==
    /\ sessions.calls < MaxSessionCalls
    /\ sessions' = [sessions EXCEPT
            !.calls = @ + 1,
            !.managers[d].pendingOperations = MapDelete(@, clientId)]
    /\ UNCHANGED <<content, version, pendingOperations, call, calls>>
    /\ UNCHANGED <<ot, storeVars, socketVars>>

\* new DocumentManager(initialContent) for each document
InitSessions ==
    /\ \E initialContent \in [Docs -> BaseStrings] :
          sessions = [pc |-> "running", heap |-> <<>>, calls |-> 0,
                      managers |-> [d \in Docs |->
                          [content |-> initialContent[d], version |-> 0,
                           pendingOperations |-> <<>>]]]
    /\ content = <<>>
    /\ version = 0
    /\ pendingOperations = <<>>
    /\ call = [kind |-> "none"]
    /\ calls = 0
    /\ OTIdle
    /\ StoreIdle
    /\ SocketFresh

NextSessions ==
    \/ \E d \in Docs, c \in Clients, o \in SessionOpSeqs : SessionApplyNew(d, c, o)
    \/ \E d \in Docs, c \in Clients, ref \in 1..MaxSessionCalls : SessionApplyHeld(d, c, ref)
    \/ \E d \in Docs, c \in Clients : SessionApplyThrows(d, c)
    \/ \E d \in Docs, c \in Clients : SessionAcknowledge(d, c)

SpecSessions == InitSessions /\ [][NextSessions]_vars

(***************************************************************************)
(* The version / branch / merge store (src/lib/db/document-queries.ts,     *)
(* src/lib/db/schema.ts) for one document.  Ids are serial.  Every         *)
(* `await db...` is one step: nothing wraps a handler's statements in a    *)
(* transaction, and a statement may throw.  No table has a unique index    *)
(* (schema.ts:128-132, 150-153 declare plain indexes).                     *)
(***************************************************************************)
NullId == 0         \* a NULL parent_version_id / head_version_id

BranchNames == {"main", "feature"}
Contents == {"X", "Y"}

\* Rows of document_versions on a branch, and getDocumentVersions(...)[0]:
\* the rows are ordered by version descending, so the first is any row with
\* the greatest version number (the order among equal numbers is the
\* database's choice).
VersionsOn(rows, branchName) ==
    { i \in 1..Len(rows) : rows[i].branchName = branchName }

LatestOn(rows, branchName) ==
    { i \in VersionsOn(rows, branchName) :
        \A j \in VersionsOn(rows, branchName) : rows[j].version <= rows[i].version }

InFlight == { r \in 1..Len(reqs) : reqs[r].pc \notin {"done", "failed"} }

CanStart(limit) == Len(reqs) < MaxReqs /\ Cardinality(InFlight) < limit

NewReq(kind, pc) ==
    [kind |-> kind, pc |-> pc, result |-> "", branchName |-> "", sourceBranch |-> "",
     data |-> [version |-> 0, content |-> "", branchName |-> "", parentVersionId |-> NullId],
     latestSource |-> NullId, latestTarget |-> NullId, mergeVersionId |-> NullId,
     nameTaken |-> FALSE, docBefore |-> documents]

\* A variant: the merge version is numbered after the target branch alone.
mergeNewVersionTargetOnly(latestSource, latestTarget) == latestTarget.version + 1

\* mergeBranch, document-queries.ts:273
mergeNewVersion(latestSource, latestTarget) ==
    Max(latestSource.version, latestTarget.version) + 1

\* POST /api/documents/[id]/versions up to its first statement
\* (versions/route.ts:59-71): the body is parsed, the document is read and
\* the next number is taken from its currentVersion.
PostVersionsGetDocument(limit, branchName, text, parentVersionId) ==
    /\ CanStart(limit)
    /\ reqs' = Append(reqs,
          [NewReq("post", "insertVersion") EXCEPT
              !.branchName = branchName,
              !.data = [version |-> documents.currentVersion + 1, content |-> text,
                        branchName |-> branchName, parentVersionId |-> parentVersionId]])
    /\ UNCHANGED <<documents, documentVersions, documentBranches, documentMerges>>
    /\ UNCHANGED <<ot, dmVars, socketVars>>

\* createDocumentVersion, first statement (document-queries.ts:169).
CreateDocumentVersionInsert(r) ==
    /\ reqs[r].pc = "insertVersion"
    /\ documentVersions' = Append(documentVersions,
          [id |-> Len(documentVersions) + 1,
           version |-> reqs[r].data.version,
           content |-> reqs[r].data.content,
           branchName |-> reqs[r].data.branchName,
           parentVersionId |-> reqs[r].data.parentVersionId,
           by |-> r])
    /\ reqs' = [reqs EXCEPT ![r].pc = "updateDocument",
                            ![r].mergeVersionId = Len(documentVersions) + 1]
    /\ UNCHANGED <<documents, documentBranches, documentMerges>>
    /\ UNCHANGED <<ot, dmVars, socketVars>>

\* createDocumentVersion, second statement (document-queries.ts:172-179),
\* and the return to the caller.
CreateDocumentVersionUpdate(r) ==
    /\ reqs[r].pc = "updateDocument"
    /\ documents' = [currentVersion |-> reqs[r].data.version,
                     content |-> reqs[r].data.content]
    /\ reqs' = [reqs EXCEPT
                  ![r].pc = IF reqs[r].kind = "merge" THEN "insertMerge" ELSE "done",
                  ![r].result = IF reqs[r].kind = "merge" THEN "" ELSE "201"]
    /\ UNCHANGED <<documentVersions, documentBranches, documentMerges>>
    /\ UNCHANGED <<ot, dmVars, socketVars>>

\* mergeBranch up to its first statement (document-queries.ts:262).
MergeBranchFetchSource(limit, sourceBranch, targetBranch) ==
    /\ CanStart(limit)
    /\ \E ls \in (IF LatestOn(documentVersions, sourceBranch) = {} THEN {NullId}
                  ELSE LatestOn(documentVersions, sourceBranch)) :
          reqs' = Append(reqs,
              [NewReq("merge", "fetchTarget") EXCEPT
                  !.sourceBranch = sourceBranch,
                  !.branchName = targetBranch,
                  !.latestSource = ls])
    /\ UNCHANGED <<documents, documentVersions, documentBranches, documentMerges>>
    /\ UNCHANGED <<ot, dmVars, socketVars>>

\* A variant of the second statement of mergeBranch that takes an empty
\* branch for nothing to merge and returns.
MergeBranchFetchTargetLenient(r) ==
    /\ reqs[r].pc = "fetchTarget"
    /\ \E lt \in (IF LatestOn(documentVersions, reqs[r].branchName) = {} THEN {NullId}
                  ELSE LatestOn(documentVersions, reqs[r].branchName)) :
          reqs' = [reqs EXCEPT ![r] =
              IF reqs[r].latestSource = NullId \/ lt = NullId
              THEN [reqs[r] EXCEPT !.pc = "done", !.result = "200"]
              ELSE [reqs[r] EXCEPT
                      !.pc = "insertVersion",
                      !.latestTarget = lt,
                      !.data = [version |-> mergeNewVersion(
                                                documentVersions[reqs[r].latestSource],
                                                documentVersions[lt]),
                                content |-> documentVersions[reqs[r].latestSource].content,
                                branchName |-> reqs[r].branchName,
                                parentVersionId |-> lt]]]
    /\ UNCHANGED <<documents, documentVersions, documentBranches, documentMerges>>
    /\ UNCHANGED <<ot, dmVars, socketVars>>

\* mergeBranch, document-queries.ts:263-283: the target's versions are read,
\* an empty branch throws, and the merge version's row is prepared.
MergeBranchFetchTarget(r) ==
    /\ reqs[r].pc = "fetchTarget"
    /\ \E lt \in (IF LatestOn(documentVersions, reqs[r].branchName) = {} THEN {NullId}
                  ELSE LatestOn(documentVersions, reqs[r].branchName)) :
          reqs' = [reqs EXCEPT ![r] =
              IF reqs[r].latestSource = NullId \/ lt = NullId
              THEN [reqs[r] EXCEPT !.pc = "failed", !.result = "EmptyBranch"]
              ELSE [reqs[r] EXCEPT
                      !.pc = "insertVersion",
                      !.latestTarget = lt,
                      !.data = [version |-> mergeNewVersion(
                                                documentVersions[reqs[r].latestSource],
                                                documentVersions[lt]),
                                content |-> documentVersions[reqs[r].latestSource].content,
                                branchName |-> reqs[r].branchName,
                                parentVersionId |-> lt]]]
    /\ UNCHANGED <<documents, documentVersions, documentBranches, documentMerges>>
    /\ UNCHANGED <<ot, dmVars, socketVars>>

\* mergeBranch, document-queries.ts:286-298.
MergeBranchRecord(r) ==
    /\ reqs[r].pc = "insertMerge"
    /\ documentMerges' = Append(documentMerges,
          [id |-> Len(documentMerges) + 1,
           sourceBranch |-> reqs[r].sourceBranch,
           targetBranch |-> reqs[r].branchName,
           sourceVersionId |-> reqs[r].latestSource,
           targetVersionId |-> reqs[r].latestTarget,
           mergeVersionId |-> reqs[r].mergeVersionId,
           status |-> "completed",
           by |-> r])
    /\ reqs' = [reqs EXCEPT ![r].pc = "done", ![r].result = "200"]
    /\ UNCHANGED <<documents, documentVersions, documentBranches>>
    /\ UNCHANGED <<ot, dmVars, socketVars>>

\* A write statement throws (the connection drops, a constraint fails): the
\* handler's catch answers 500 and nothing that was written is undone
\* (versions/route.ts:96-110, collaborators/route.ts:185-198).
StatementThrows(r) ==
    /\ reqs[r].pc \in {"insertVersion", "updateDocument", "insertMerge"}
    /\ reqs' = [reqs EXCEPT ![r].pc = "failed", ![r].result = "500"]
    /\ UNCHANGED <<documents, documentVersions, documentBranches, documentMerges>>
    /\ UNCHANGED <<ot, dmVars, socketVars>>

\* createDocumentBranch (document-queries.ts:228-231) as POST /branches calls
\* it (collaborators/route.ts:250-257): one insert, nothing is looked up
\* first.
createDocumentBranch(limit, name) ==
    /\ CanStart(limit)
    /\ documentBranches' = Append(documentBranches,
          [id |-> Len(documentBranches) + 1, name |-> name,
           headVersionId |-> NullId, isDefault |-> FALSE, by |-> Len(reqs) + 1])
    /\ reqs' = Append(reqs,
          [NewReq("branch", "done") EXCEPT
              !.branchName = name,
              !.result = "201",
              !.nameTaken =
                  \E i \in 1..Len(documentBranches) : documentBranches[i].name = name])
    /\ UNCHANGED <<documents, documentVersions, documentMerges>>
    /\ UNCHANGED <<ot, dmVars, socketVars>>



\* The state createDocument leaves (document-queries.ts:27-49): version 1 on
\* main, the documents row at currentVersion 1, and the default branch main
\* (inserted without a head).
InitStore ==
    /\ \E text \in Contents :
        /\ documents = [currentVersion |-> 1, content |-> text]
        /\ documentVersions = <<[id |-> 1, version |-> 1, content |-> text,
                                 branchName |-> "main", parentVersionId |-> NullId,
                                 by |-> 0]>>
    /\ documentBranches = <<[id |-> 1, name |-> "main", headVersionId |-> NullId,
                             isDefault |-> TRUE, by |-> 0]>>
    /\ documentMerges = <<>>
    /\ reqs = <<>>
    /\ OTIdle
    /\ DMIdle
    /\ SocketFresh

\* The parent a client names in POST /versions: none, or a row it has seen.
ParentChoices == {NullId} \cup { Len(documentVersions) }

\* One request at a time: each handler runs to its end before the next
\* request arrives.
NextStore ==
    \/ \E b \in BranchNames, text \in Contents, p \in ParentChoices :
          PostVersionsGetDocument(1, b, text, p)
    \/ \E src \in BranchNames, tgt \in BranchNames : MergeBranchFetchSource(1, src, tgt)
    \/ \E name \in BranchNames : createDocumentBranch(1, name)
    \/ \E r \in 1..Len(reqs) : CreateDocumentVersionInsert(r)
    \/ \E r \in 1..Len(reqs) : CreateDocumentVersionUpdate(r)
    \/ \E r \in 1..Len(reqs) : MergeBranchFetchTarget(r)
    \/ \E r \in 1..Len(reqs) : MergeBranchRecord(r)
    \/ \E r \in 1..Len(reqs) : StatementThrows(r)

SpecStore == InitStore /\ [][NextStore]_vars

\* Version creation with two requests in the server at once: each await of
\* the route and of createDocumentVersion is a point where the other
\* request's handler runs.
NextStoreConcurrent ==
    \/ \E b \in BranchNames, text \in Contents, p \in ParentChoices :
          PostVersionsGetDocument(2, b, text, p)
    \/ \E r \in 1..Len(reqs) : CreateDocumentVersionInsert(r)
    \/ \E r \in 1..Len(reqs) : CreateDocumentVersionUpdate(r)

SpecStoreConcurrent == InitStore /\ [][NextStoreConcurrent]_vars

(***************************************************************************)
(* The socket coordinator (src/lib/socket/server.ts).  A handler is one    *)
(* step.  An emission is recorded as the emit call made: to a room         *)
(* (socket.to(room).emit: every member of the room but the sender) or to   *)
(* the sender's own socket (socket.emit).  username travels with userId    *)
(* and is not modelled apart from it; Date.now() appears only as the       *)
(* order of the timestamps in the operation log.                           *)
(***************************************************************************)
\* One more message taken from an open connection.
Handle(c) ==
    /\ connected[c]
    /\ handled < MaxMsgs
    /\ handled' = handled + 1

\* !socket.data?.userId is false
HasUserId(c) == socketData[c].userId # NoUser

ToRoom(c, d, event, payload) ==
    [kind |-> "room", doc |-> d, conn |-> c, event |-> event, payload |-> payload]
ToSocket(c, event, payload) ==
    [kind |-> "socket", doc |-> NoDoc, conn |-> c, event |-> event, payload |-> payload]

\* The operations a client sends: position and length always present, a
\* version field on some.
SocketOperations ==
    { [type |-> "insert", position |-> 0, length |-> 1, version |-> 1],
      [type |-> "insert", position |-> 1, length |-> 1, version |-> NoVersion],
      [type |-> "delete", position |-> 1, length |-> 1, version |-> NoVersion] }
ClientVersions == {0, 1}

\* Array.prototype.sort((a, b) => a.timestamp - b.timestamp): stable.
RECURSIVE InsertByTimestamp(_, _)
InsertByTimestamp(sorted, op) ==
    IF sorted = <<>> THEN <<op>>
    ELSE IF sorted[Len(sorted)].timestamp <= op.timestamp THEN Append(sorted, op)
    ELSE Append(InsertByTimestamp(SubSeq(sorted, 1, Len(sorted) - 1), op), sorted[Len(sorted)])

RECURSIVE SortByTimestampFrom(_, _, _)
SortByTimestampFrom(ops, i, sorted) ==
    IF i > Len(ops) THEN sorted
    ELSE SortByTimestampFrom(ops, i + 1, InsertByTimestamp(sorted, ops[i]))

\* getOperationsSince (server.ts:326-334): an operation without a version
\* field compares as undefined > version, which is false.
getOperationsSince(d, clientVersion) ==
    SortByTimestampFrom(
        SelectSeq(documentOperations[d],
                  LAMBDA op : op.version # NoVersion /\ op.version > clientVersion),
        1, <<>>)

\* operationalTransform (server.ts:286-313)
operationalTransform(clientOp, serverOp) ==
    IF clientOp.type = "insert" /\ serverOp.type = "insert" THEN
        IF clientOp.position <= serverOp.position THEN clientOp
        ELSE [clientOp EXCEPT !.position = clientOp.position + serverOp.length]
    ELSE IF clientOp.type = "delete" /\ serverOp.type = "insert" THEN
        IF clientOp.position <= serverOp.position THEN clientOp
        ELSE [clientOp EXCEPT !.position = clientOp.position + serverOp.length]
    ELSE clientOp

RECURSIVE TransformAgainstLog(_, _, _)
TransformAgainstLog(transformedOp, serverOperations, i) ==
    IF i > Len(serverOperations) THEN transformedOp
    ELSE TransformAgainstLog(operationalTransform(transformedOp, serverOperations[i]),
                             serverOperations, i + 1)

\* transformOperation (server.ts:268-283)
transformOperation(d, operation, clientVersion) ==
    TransformAgainstLog(operation, getOperationsSince(d, clientVersion), 1)

\* Date.now() when an operation is saved: not before the newest saved one.
Timestamps(d) ==
    IF documentOperations[d] = <<>> THEN {1}
    ELSE { documentOperations[d][1].timestamp, documentOperations[d][1].timestamp + 1 }

\* socket.on('authenticate') (server.ts:69-78): socket.data is replaced, so
\* a documentId it held is gone.
Authenticate(c, userId) ==
    /\ Handle(c)
    /\ socketData' = [socketData EXCEPT ![c] = [userId |-> userId, documentId |-> NoDoc]]
    /\ authProcessed' = [authProcessed EXCEPT ![c] = TRUE]
    /\ emits' = <<ToSocket(c, "authenticated", [success |-> TRUE])>>
    /\ UNCHANGED <<rooms, connected, users, documentOperations, branches>>
    /\ UNCHANGED <<cursorReads, client>>
    /\ UNCHANGED <<ot, dmVars, storeVars>>

\* socket.on('join-document') (server.ts:81-118)
JoinDocument(c, d) ==
    /\ Handle(c)
    /\ IF ~HasUserId(c)
       THEN /\ emits' = <<ToSocket(c, "error", [message |-> "Not authenticated"])>>
            /\ UNCHANGED <<socketData, rooms, users>>
       ELSE /\ socketData' = [socketData EXCEPT ![c].documentId = d]
            /\ rooms' = [rooms EXCEPT ![c] = @ \cup {d}]
            /\ users' = [users EXCEPT ![d][socketData[c].userId] =
                            [present |-> TRUE, cursor |-> NoCursor]]
            /\ emits' = <<ToRoom(c, d, "user-joined", [userId |-> socketData[c].userId]),
                          ToSocket(c, "document-users",
                              [users |-> { u \in Users : users'[d][u].present }])>>
    /\ UNCHANGED <<connected, authProcessed, documentOperations, branches>>
    /\ UNCHANGED <<cursorReads, client>>
    /\ UNCHANGED <<ot, dmVars, storeVars>>

\* A variant of leave-document that deletes the whole presence hash of the
\* document (DEL key) instead of the user's field.
LeaveDocumentDelKey(c, d) ==
    /\ Handle(c)
    /\ IF ~HasUserId(c)
       THEN /\ emits' = <<>>
            /\ UNCHANGED <<rooms, users>>
       ELSE /\ rooms' = [rooms EXCEPT ![c] = @ \ {d}]
            /\ users' = [users EXCEPT ![d] = [u \in Users |-> NoEntry]]
            /\ emits' = <<ToRoom(c, d, "user-left", [userId |-> socketData[c].userId])>>
    /\ UNCHANGED <<socketData, connected, authProcessed, documentOperations, branches>>
    /\ UNCHANGED <<cursorReads, client>>
    /\ UNCHANGED <<ot, dmVars, storeVars>>

\* socket.on('leave-document') (server.ts:120-129)
LeaveDocument(c, d) ==
    /\ Handle(c)
    /\ IF ~HasUserId(c)
       THEN /\ emits' = <<>>
            /\ UNCHANGED <<rooms, users>>
       ELSE /\ rooms' = [rooms EXCEPT ![c] = @ \ {d}]
            /\ users' = [users EXCEPT ![d][socketData[c].userId] = NoEntry]
            /\ emits' = <<ToRoom(c, d, "user-left", [userId |-> socketData[c].userId])>>
    /\ UNCHANGED <<socketData, connected, authProcessed, documentOperations, branches>>
    /\ UNCHANGED <<cursorReads, client>>
    /\ UNCHANGED <<ot, dmVars, storeVars>>

\* socket.on('document-operation') (server.ts:132-154) with saveOperation
\* (server.ts:315-324): lPush puts the saved operation at the head.
DocumentOperation(c, d, operation, clientVersion) ==
    /\ Handle(c)
    /\ IF ~HasUserId(c)
       THEN /\ emits' = <<>>
            /\ UNCHANGED documentOperations
       ELSE LET transformedOperation == transformOperation(d, operation, clientVersion) IN
            /\ emits' = <<ToRoom(c, d, "document-operation",
                              [operation |-> transformedOperation,
                               userId |-> socketData[c].userId])>>
            /\ \E ts \in Timestamps(d) :
                  documentOperations' = [documentOperations EXCEPT ![d] =
                      <<[type |-> transformedOperation.type,
                         position |-> transformedOperation.position,
                         length |-> transformedOperation.length,
                         version |-> transformedOperation.version,
                         timestamp |-> ts]>> \o @]
    /\ UNCHANGED <<socketData, rooms, connected, authProcessed, users, branches>>
    /\ UNCHANGED <<cursorReads, client>>
    /\ UNCHANGED <<ot, dmVars, storeVars>>

\* A variant of cursor-update that emits to the whole room with io.to(room),
\* the sender included.
CursorUpdateToAll(c, d, position) ==
    /\ Handle(c)
    /\ IF ~HasUserId(c)
       THEN /\ emits' = <<>>
            /\ UNCHANGED users
       ELSE /\ users' = IF users[d][socketData[c].userId].present
                        THEN [users EXCEPT ![d][socketData[c].userId].cursor = position]
                        ELSE users
            /\ emits' = <<ToRoom(c, d, "cursor-update",
                              [userId |-> socketData[c].userId, cursor |-> position]),
                          ToSocket(c, "cursor-update",
                              [userId |-> socketData[c].userId, cursor |-> position])>>
    /\ UNCHANGED <<socketData, rooms, connected, authProcessed, documentOperations, branches>>
    /\ UNCHANGED <<cursorReads, client>>
    /\ UNCHANGED <<ot, dmVars, storeVars>>

\* socket.on('cursor-update') (server.ts:157-174) with updateUserCursor
\* (server.ts:253-265)
CursorUpdate(c, d, position) ==
    /\ Handle(c)
    /\ IF ~HasUserId(c)
       THEN /\ emits' = <<>>
            /\ UNCHANGED users
       ELSE /\ users' = IF users[d][socketData[c].userId].present
                        THEN [users EXCEPT ![d][socketData[c].userId].cursor = position]
                        ELSE users
            /\ emits' = <<ToRoom(c, d, "cursor-update",
                              [userId |-> socketData[c].userId, cursor |-> position])>>
    /\ UNCHANGED <<socketData, rooms, connected, authProcessed, documentOperations, branches>>
    /\ UNCHANGED <<cursorReads, client>>
    /\ UNCHANGED <<ot, dmVars, storeVars>>

\* socket.on('cursor-update') (server.ts:157-174) up to the first await of
\* updateUserCursor: the hGet (server.ts:259).  The handler then waits for
\* the reply while the server takes other messages; what it read stays with
\* it.
CursorUpdateRead(c, d, position) ==
    /\ Handle(c)
    /\ HasUserId(c)
    /\ ~cursorReads[c].waiting
    /\ cursorReads' = [cursorReads EXCEPT ![c] =
           [waiting |-> TRUE, doc |-> d, userId |-> socketData[c].userId,
            found |-> users[d][socketData[c].userId].present,
            position |-> position]]
    /\ emits' = <<>>
    /\ UNCHANGED <<socketData, rooms, connected, authProcessed, users,
                   documentOperations, branches, client>>
    /\ UNCHANGED <<ot, dmVars, storeVars>>

\* The rest of updateUserCursor (server.ts:260-264) and of the handler
\* (server.ts:169-173): if the hGet found the user, the parsed user with the
\* new cursor is written with hSet, which creates the field when it is not
\* there; then the cursor is broadcast.  userId and username were read from
\* socket.data when the call was made (server.ts:167).
CursorUpdateWrite(c) ==
    /\ cursorReads[c].waiting
    /\ cursorReads' = [cursorReads EXCEPT ![c] = NoRead]
    /\ users' = IF cursorReads[c].found
                THEN [users EXCEPT ![cursorReads[c].doc][cursorReads[c].userId] =
                         [present |-> TRUE, cursor |-> cursorReads[c].position]]
                ELSE users
    /\ emits' = <<ToRoom(c, cursorReads[c].doc, "cursor-update",
                      [userId |-> socketData[c].userId,
                       cursor |-> cursorReads[c].position])>>
    /\ UNCHANGED <<socketData, rooms, connected, authProcessed, documentOperations,
                   branches, handled, client>>
    /\ UNCHANGED <<ot, dmVars, storeVars>>

\* socket.on('create-branch') (server.ts:177-193) with createBranch
\* (server.ts:337-356): hSet writes the field whether or not it exists.
CreateBranch(c, d, branchName, fromVersion) ==
    /\ Handle(c)
    /\ IF ~HasUserId(c)
       THEN /\ emits' = <<>>
            /\ UNCHANGED branches
       ELSE /\ branches' = [branches EXCEPT ![d][branchName] =
                              [present |-> TRUE, createdBy |-> socketData[c].userId,
                               fromVersion |-> fromVersion]]
            /\ emits' = <<ToSocket(c, "branch-created",
                              [name |-> branchName, createdBy |-> socketData[c].userId,
                               fromVersion |-> fromVersion]),
                          ToRoom(c, d, "branch-created",
                              [name |-> branchName, createdBy |-> socketData[c].userId,
                               fromVersion |-> fromVersion])>>
    /\ UNCHANGED <<socketData, rooms, connected, authProcessed, users, documentOperations>>
    /\ UNCHANGED <<cursorReads, client>>
    /\ UNCHANGED <<ot, dmVars, storeVars>>

\* mergeBranch (server.ts:358-376): the result object, built from the
\* arguments alone.
MergeResult(sourceBranch, targetBranch, userId) ==
    [success |-> TRUE, mergedBy |-> userId,
     sourceBranch |-> sourceBranch, targetBranch |-> targetBranch]

\* A variant of merge-branch that does not test socket.data.userId
MergeBranchNoGate(c, d, sourceBranch, targetBranch) ==
    /\ Handle(c)
    /\ LET mergeResult == MergeResult(sourceBranch, targetBranch, socketData[c].userId) IN
       emits' = <<ToSocket(c, "branch-merged", mergeResult),
                  ToRoom(c, d, "branch-merged", mergeResult)>>
    /\ UNCHANGED <<socketData, rooms, connected, authProcessed, users,
                   documentOperations, branches>>
    /\ UNCHANGED <<cursorReads, client>>
    /\ UNCHANGED <<ot, dmVars, storeVars>>

\* socket.on('merge-branch') (server.ts:195-218) with mergeBranch
\* (server.ts:358-376), which builds its result and touches nothing.
MergeBranch(c, d, sourceBranch, targetBranch) ==
    /\ Handle(c)
    /\ LET mergeResult == MergeResult(sourceBranch, targetBranch, socketData[c].userId) IN
       emits' = IF ~HasUserId(c) THEN <<>>
                ELSE <<ToSocket(c, "branch-merged", mergeResult),
                       ToRoom(c, d, "branch-merged", mergeResult)>>
    /\ UNCHANGED <<socketData, rooms, connected, authProcessed, users,
                   documentOperations, branches>>
    /\ UNCHANGED <<cursorReads, client>>
    /\ UNCHANGED <<ot, dmVars, storeVars>>

\* socket.on('disconnect') (server.ts:221-231).  The socket has left its
\* rooms when the handler runs.
Disconnect(c) ==
    /\ Handle(c)
    /\ connected' = [connected EXCEPT ![c] = FALSE]
    /\ rooms' = [rooms EXCEPT ![c] = {}]
    /\ IF socketData[c].documentId # NoDoc /\ HasUserId(c)
       THEN /\ users' = [users EXCEPT
                            ![socketData[c].documentId][socketData[c].userId] = NoEntry]
            /\ emits' = <<ToRoom(c, socketData[c].documentId, "user-left",
                              [userId |-> socketData[c].userId])>>
       ELSE /\ emits' = <<>>
            /\ UNCHANGED users
    /\ UNCHANGED <<socketData, authProcessed, documentOperations, branches>>
    /\ UNCHANGED <<cursorReads, client>>
    /\ UNCHANGED <<ot, dmVars, storeVars>>

InitSocket ==
    /\ SocketFresh
    /\ OTIdle
    /\ DMIdle
    /\ StoreIdle

NextSocket ==
    \/ \E c \in Conns, u \in Users : Authenticate(c, u)
    \/ \E c \in Conns, d \in Docs : JoinDocument(c, d)
    \/ \E c \in Conns, d \in Docs : LeaveDocument(c, d)
    \/ \E c \in Conns, d \in Docs, o \in SocketOperations, v \in ClientVersions :
          DocumentOperation(c, d, o, v)
    \/ \E c \in Conns, d \in Docs, pos \in CursorPositions : CursorUpdate(c, d, pos)
    \/ \E c \in Conns, d \in Docs, b \in SocketBranchNames, v \in FromVersions :
          CreateBranch(c, d, b, v)
    \/ \E c \in Conns, d \in Docs, src \in SocketBranchNames, tgt \in SocketBranchNames :
          MergeBranch(c, d, src, tgt)
    \/ \E c \in Conns : Disconnect(c)

SpecSocket == InitSocket /\ [][NextSocket]_vars

\* C1: convergence.  For every base string s and every pair a, b well-formed
\* for s, with (a', b') = transform(a, b), applying a then b' gives the same
\* string as applying b then a'; deletes included.
C1_Convergence == ot.pc = "done" => ot.left = ot.right


\* Position at which a sequence makes its first insert: the retain counts
\* before it.
RECURSIVE InsertPosFrom(_, _)
InsertPosFrom(operations, i) ==
    IF i > Len(operations) \/ operations[i].type = "insert" THEN 0
    ELSE CountOf(operations[i]) + InsertPosFrom(operations, i + 1)

InsertPos(operations) == InsertPosFrom(operations, 1)

\* C2: insert tie-break by arrival order.  When two clients each submit one
\* insert (of different texts) at the same position p of the same base, and the session processes
\* the first client's and then (the first still pending) the second's, the
\* second's accepted operation inserts at p + len(first text), so the first
\* client's text precedes the second's in the content.
C2_InsertTieBreak ==
    [][\A p \in 0..MaxLen, n \in 0..MaxLen, ta \in Texts, tb \in Texts :
        ( /\ p <= n /\ ta # tb
          /\ calls = 1 /\ calls' = 2
          /\ call.kind = "apply" /\ call.isArray
          /\ Len(call.before.content) = n
          /\ call.operations = createInsertOp(p, ta, n)
          /\ call'.kind = "apply" /\ call'.isArray
          /\ call'.clientId # call.clientId
          /\ call'.operations = createInsertOp(p, tb, n) )
        => /\ call'.success
           /\ InsertPos(call'.transformedOps) = p + Len(ta)
           /\ content' = Slice(call.before.content, 0, p) \o ta \o tb
                            \o SliceFrom(call.before.content, p)
      ]_vars

\* C3: malformed operations are rejected without effect.  applyOperation
\* with a sequence whose retain and delete counts sum to more than the
\* current content length returns success = false and leaves content and
\* version as they were.
C3_MalformedRejected ==
    ( /\ call.kind = "apply" /\ call.isArray
      /\ SourceLen(call.operations) > Len(call.before.content) )
    => /\ ~call.success
       /\ content = call.before.content
       /\ version = call.before.version

\* C4: session version discipline.  Over any sequence of applyOperation and
\* acknowledgeOperation calls the version never decreases; a successful
\* applyOperation raises it by exactly 1 and sets content to
\* apply(previous content, transformedOps); a failed applyOperation and
\* every acknowledgeOperation leave version and content unchanged.
C4_VersionDiscipline ==
    [][calls' # calls =>
        /\ version' >= version
        /\ (call'.kind = "apply" /\ call'.success) =>
              /\ version' = version + 1
              /\ content' = apply(content, call'.transformedOps)
              /\ call'.newVersion = version' /\ call'.newContent = content'
        /\ (call'.kind = "apply" /\ ~call'.success) =>
              /\ version' = version /\ content' = content
        /\ call'.kind = "ack" =>
              /\ version' = version /\ content' = content
      ]_vars

\* A run in which an accepted operation follows a call that left the
\* version alone (a failed applyOperation or an acknowledgement).
C4_Witness ==
    /\ calls = 2 /\ version = 1
    /\ call.kind = "apply" /\ call.success
    /\ content # call.before.content


\* The rows of a branch in creation order, and the rows a request wrote.
BranchSeq(b) == SelectSeq(documentVersions, LAMBDA v : v.branchName = b)
VersionsBy(r) == { i \in 1..Len(documentVersions) : documentVersions[i].by = r }
MergesBy(r) == { i \in 1..Len(documentMerges) : documentMerges[i].by = r }

StrictlyIncreasingPerBranch ==
    \A b \in BranchNames : \A i, j \in 1..Len(BranchSeq(b)) :
        i < j => BranchSeq(b)[i].version < BranchSeq(b)[j].version

NoGapsPerBranch ==
    \A b \in BranchNames : \A i \in 1..(Len(BranchSeq(b)) - 1) :
        BranchSeq(b)[i + 1].version = BranchSeq(b)[i].version + 1

\* C5: version monotonicity in the store.  For every branch of the document,
\* over any sequence of POST /versions and mergeBranch calls, the versions
\* stored for the branch have strictly increasing numbers in creation order
\* (so no number is used twice) and the numbers have no gaps.
C5_VersionMonotonicity == StrictlyIncreasingPerBranch /\ NoGapsPerBranch

\* C6: merge atomicity.  Once a mergeBranch call has ended, by returning or
\* by throwing, a version it created exists if and only if a completed merge
\* record names that version; a call that threw left no version behind and
\* left the documents row as it found it.
C6_MergeAtomicity ==
    /\ \A r \in 1..Len(reqs) :
          (reqs[r].kind = "merge" /\ reqs[r].pc \in {"done", "failed"}) =>
              /\ \A i \in VersionsBy(r) : \E m \in MergesBy(r) :
                    /\ documentMerges[m].status = "completed"
                    /\ documentMerges[m].mergeVersionId = i
              /\ (reqs[r].pc = "failed" /\ r = Len(reqs)) =>
                    /\ VersionsBy(r) = {}
                    /\ documents = reqs[r].docBefore
    /\ \A m \in 1..Len(documentMerges) :
          documentMerges[m].status = "completed" =>
              /\ documentMerges[m].mergeVersionId \in 1..Len(documentVersions)
              /\ documentVersions[documentMerges[m].mergeVersionId].by = documentMerges[m].by

\* C7: merge result.  A mergeBranch(source, target) call that returns, both
\* branches having versions, has created exactly one version, on target,
\* numbered max(latest source number, latest target number) + 1, with the
\* latest source version's content and the latest target version as parent,
\* and exactly one merge record, completed, naming those three versions.
C7_MergeResult ==
    \A r \in 1..Len(reqs) :
        (reqs[r].kind = "merge" /\ reqs[r].pc = "done") =>
            /\ Cardinality(VersionsBy(r)) = 1
            /\ Cardinality(MergesBy(r)) = 1
            /\ \A i \in VersionsBy(r) : \A k \in MergesBy(r) :
                LET v == documentVersions[i]
                    m == documentMerges[k]
                    before == SubSeq(documentVersions, 1, i - 1)
                IN  /\ m.status = "completed"
                    /\ m.sourceBranch = reqs[r].sourceBranch
                    /\ m.targetBranch = reqs[r].branchName
                    /\ m.mergeVersionId = v.id
                    /\ m.sourceVersionId \in LatestOn(before, m.sourceBranch)
                    /\ m.targetVersionId \in LatestOn(before, m.targetBranch)
                    /\ v.branchName = m.targetBranch
                    /\ v.version = Max(before[m.sourceVersionId].version,
                                       before[m.targetVersionId].version) + 1
                    /\ v.content = before[m.sourceVersionId].content
                    /\ v.parentVersionId = m.targetVersionId

\* A merge of feature into main has returned, feature being ahead of main
\* and holding a different text.
C7_Witness ==
    \E k \in 1..Len(documentMerges) :
        LET m == documentMerges[k] IN
        /\ m.sourceBranch = "feature" /\ m.targetBranch = "main"
        /\ reqs[m.by].pc = "done"
        /\ documentVersions[m.sourceVersionId].version
              > documentVersions[m.targetVersionId].version
        /\ documentVersions[m.sourceVersionId].content
              # documentVersions[m.targetVersionId].content
        /\ documentVersions[m.mergeVersionId].content
              = documentVersions[m.sourceVersionId].content

\* C8: branch names are unique per document.  Creating a branch whose name
\* the document already has fails with DuplicateBranch and adds no row, so
\* at most one branch row exists per name.
C8_BranchNamesUnique ==
    /\ \A i, j \in 1..Len(documentBranches) :
          i # j => documentBranches[i].name # documentBranches[j].name
    /\ \A r \in 1..Len(reqs) :
          (reqs[r].kind = "branch" /\ reqs[r].nameTaken) =>
              reqs[r].pc = "failed" /\ reqs[r].result = "DuplicateBranch"

(***************************************************************************)
(* The socket client (client.ts).  this.socket is null, or a socket that   *)
(* is connecting (autoConnect, reconnection) or connected.  Every call of  *)
(* authenticate has its own promise, its own two timers and its own        *)
(* handlers on the socket; client.awaited counts the authenticate messages *)
(* sent whose reply has not come.  The server answers every authenticate   *)
(* with {success: true} (server.ts:77).                                    *)
(***************************************************************************)
serverVars == <<socketData, rooms, connected, authProcessed, users, documentOperations,
                branches, emits, handled, cursorReads>>

\* The closure of one authenticate call, before anything is registered.
NewCall == [promise |-> "pending", authTimer |-> "off", connectTimer |-> "off",
            connectHandler |-> FALSE, errorHandler |-> FALSE, handleAuth |-> FALSE]

\* resolve(value): a promise that is settled stays as it is.
Resolve(k, value) == IF k.promise = "pending" THEN [k EXCEPT !.promise = value] ELSE k

\* attemptAuthentication (client.ts:195-215), the emit apart: the 5 s timer
\* is set and handleAuth is registered.
attemptAuthentication(k) == [k EXCEPT !.authTimer = "armed", !.handleAuth = TRUE]

MapCalls(Op(_)) == [i \in 1..Len(client.calls) |-> Op(client.calls[i])]

\* new CollaborativeSocketClient() (client.ts:76-113): in the browser io()
\* starts connecting, on the server side this.socket stays null.
ClientNew(inBrowser) ==
    /\ ~client.made
    /\ client' = [client EXCEPT !.made = TRUE,
                                !.socket = IF inBrowser THEN "connecting" ELSE "null"]
    /\ UNCHANGED <<ot, dmVars, storeVars, serverVars>>

\* authenticate(userId, username) (client.ts:182-247) up to its return.
ClientAuthenticate ==
    /\ client.made
    /\ Len(client.calls) < MaxAuthCalls
    /\ client' =
         IF client.socket = "null"
         THEN [client EXCEPT !.calls = Append(@, Resolve(NewCall, "false"))]
         ELSE IF client.socket = "connected"
         THEN [client EXCEPT !.calls = Append(@, attemptAuthentication(NewCall)),
                             !.awaited = @ + 1]
         ELSE [client EXCEPT !.calls = Append(@,
                  [NewCall EXCEPT !.connectHandler = TRUE, !.errorHandler = TRUE,
                                  !.connectTimer = "armed"])]
    /\ UNCHANGED <<ot, dmVars, storeVars, serverVars>>

\* The socket's connect event: every connectHandler registered removes
\* itself and attempts the authentication (client.ts:220-224).
OnConnect(k) ==
    IF k.connectHandler THEN attemptAuthentication([k EXCEPT !.connectHandler = FALSE])
    ELSE k

ClientConnect ==
    /\ client.made
    /\ client.socket = "connecting"
    /\ client' = [client EXCEPT
          !.socket = "connected",
          !.calls = MapCalls(OnConnect),
          !.awaited = @ + Cardinality({ i \in 1..Len(client.calls) :
                                          client.calls[i].connectHandler })]
    /\ UNCHANGED <<ot, dmVars, storeVars, serverVars>>

\* The authenticated event (client.ts:205-211, 152-155): every handleAuth
\* registered clears its timer, removes itself and resolves.
OnAuthenticated(k) ==
    IF k.handleAuth
    THEN Resolve([k EXCEPT !.authTimer = "cleared", !.handleAuth = FALSE], "true")
    ELSE k

ClientAuthenticated ==
    /\ client.made
    /\ client.socket = "connected"
    /\ client.awaited > 0
    /\ client' = [client EXCEPT
          !.awaited = @ - 1,
          !.isAuthenticated = TRUE,
          !.calls = MapCalls(OnAuthenticated)]
    /\ UNCHANGED <<ot, dmVars, storeVars, serverVars>>

\* The socket's error event (client.ts:226-231).
OnError(k) ==
    IF k.errorHandler
    THEN Resolve([k EXCEPT !.connectHandler = FALSE, !.errorHandler = FALSE], "false")
    ELSE k

ClientError ==
    /\ client.made
    /\ client.socket # "null"
    /\ \E i \in 1..Len(client.calls) : client.calls[i].errorHandler
    /\ client' = [client EXCEPT !.calls = MapCalls(OnError)]
    /\ UNCHANGED <<ot, dmVars, storeVars, serverVars>>

\* The transport is lost: the socket reconnects (client.ts:101-105), replies
\* under way are gone, the disconnect handler runs (client.ts:122-125).
ClientConnectionLost ==
    /\ client.made
    /\ client.socket = "connected"
    /\ client' = [client EXCEPT !.socket = "connecting", !.awaited = 0,
                                !.isAuthenticated = FALSE]
    /\ UNCHANGED <<ot, dmVars, storeVars, serverVars>>

\* disconnect() (client.ts:355-364): the socket is closed and this.socket is
\* null from then on; a closed socket delivers no further event.
ClientDisconnect ==
    /\ client.made
    /\ client.socket # "null"
    /\ client' = [client EXCEPT !.socket = "null", !.awaited = 0,
                                !.isAuthenticated = FALSE]
    /\ UNCHANGED <<ot, dmVars, storeVars, serverVars>>

\* The 5 s timer of call i fires (client.ts:198-202): this.socket!.off(...)
\* comes first, and with this.socket null it throws before resolve.
AuthTimerFires(i) ==
    /\ i \in 1..Len(client.calls)
    /\ client.calls[i].authTimer = "armed"
    /\ client' = [client EXCEPT !.calls[i] =
          IF client.socket = "null"
          THEN [client.calls[i] EXCEPT !.authTimer = "threw"]
          ELSE Resolve([client.calls[i] EXCEPT !.authTimer = "fired",
                                               !.handleAuth = FALSE], "false")]
    /\ UNCHANGED <<ot, dmVars, storeVars, serverVars>>

\* The 10 s timer of call i fires (client.ts:237-244).
ConnectTimerFires(i) ==
    /\ i \in 1..Len(client.calls)
    /\ client.calls[i].connectTimer = "armed"
    /\ client' = [client EXCEPT !.calls[i] =
          IF client.socket # "connected"
          THEN Resolve([client.calls[i] EXCEPT !.connectTimer = "fired",
                                               !.connectHandler = FALSE,
                                               !.errorHandler = FALSE], "false")
          ELSE [client.calls[i] EXCEPT !.connectTimer = "fired"]]
    /\ UNCHANGED <<ot, dmVars, storeVars, serverVars>>

NextClient ==
    \/ \E inBrowser \in BOOLEAN : ClientNew(inBrowser)
    \/ ClientAuthenticate
    \/ ClientConnect
    \/ ClientAuthenticated
    \/ ClientError
    \/ ClientConnectionLost
    \/ ClientDisconnect
    \/ \E i \in 1..MaxAuthCalls : AuthTimerFires(i)
    \/ \E i \in 1..MaxAuthCalls : ConnectTimerFires(i)

SpecClient == InitSocket /\ [][NextClient]_vars

\* Timers fire: a timer that is set is not left waiting for ever.
SpecClientLive ==
    /\ SpecClient
    /\ \A i \in 1..MaxAuthCalls :
          WF_vars(AuthTimerFires(i)) /\ WF_vars(ConnectTimerFires(i))

(***************************************************************************)
(* Presence with the cursor update in its two Redis commands: between the  *)
(* hGet and the hSet of updateUserCursor the server handles any other      *)
(* message, of the same connection or of another.                          *)
(***************************************************************************)
NextPresenceRace ==
    \/ \E c \in Conns, u \in Users : Authenticate(c, u)
    \/ \E c \in Conns, d \in Docs : JoinDocument(c, d)
    \/ \E c \in Conns, d \in Docs : LeaveDocument(c, d)
    \/ \E c \in Conns, d \in Docs, pos \in CursorPositions : CursorUpdateRead(c, d, pos)
    \/ \E c \in Conns : CursorUpdateWrite(c)
    \/ \E c \in Conns : Disconnect(c)

SpecPresenceRace == InitSocket /\ [][NextPresenceRace]_vars

(***************************************************************************)
(* The operation log alone: clients authenticate and send operations.  An  *)
(* operation is the object the client built; DocumentOperation             *)
(* (client.ts:17-23) declares no version field, the base version travels   *)
(* beside it as data.version, and saveOperation stores the operation       *)
(* object with a timestamp added and nothing else.                         *)
(***************************************************************************)
LogOperations ==
    { [type |-> "insert", position |-> 0, length |-> 1, version |-> NoVersion],
      [type |-> "insert", position |-> 0, length |-> 1, version |-> 1],
      [type |-> "insert", position |-> 1, length |-> 1, version |-> NoVersion],
      [type |-> "delete", position |-> 1, length |-> 1, version |-> NoVersion] }

NextSocketLog ==
    \/ \E c \in Conns, u \in Users : Authenticate(c, u)
    \/ \E c \in Conns, d \in Docs, o \in LogOperations, v \in ClientVersions :
          DocumentOperation(c, d, o, v)

SpecSocketLog == InitSocket /\ [][NextSocketLog]_vars

(***************************************************************************)
(* Claims about the socket coordinator.                                    *)
(***************************************************************************)
\* The connections an emit call reaches: the sender's own socket, or every
\* open connection in the room but the sender.
Recipients(e, roomsOf, isConnected) ==
    IF e.kind = "socket" THEN {e.conn}
    ELSE { x \in Conns \ {e.conn} : isConnected[x] /\ e.doc \in roomsOf[x] }

UserLeftTo(d, emitted) ==
    { i \in 1..Len(emitted) :
        emitted[i].kind = "room" /\ emitted[i].doc = d /\ emitted[i].event = "user-left" }

\* C9: disconnect cleanup.  When a connection disconnects, for every document
\* it had joined and not yet left the presence entry of its user is removed
\* and user-left is emitted to that document's room exactly once; for every
\* other document (never joined, or left explicitly) no user-left is emitted.
C9_DisconnectCleanup ==
    [][\A c \in Conns :
          Disconnect(c) =>
             \A d \in Docs :
                IF d \in rooms[c]
                THEN /\ ~users'[d][socketData[c].userId].present
                     /\ Cardinality(UserLeftTo(d, emits')) = 1
                ELSE UserLeftTo(d, emits') = {}]_vars

\* The document-scoped messages a connection can send.
GatedMessage(c) ==
    \/ \E d \in Docs : JoinDocument(c, d)
    \/ \E d \in Docs : LeaveDocument(c, d)
    \/ \E d \in Docs, o \in SocketOperations, v \in ClientVersions :
          DocumentOperation(c, d, o, v)
    \/ \E d \in Docs, pos \in CursorPositions : CursorUpdate(c, d, pos)
    \/ \E d \in Docs, b \in SocketBranchNames, v \in FromVersions :
          CreateBranch(c, d, b, v)
    \/ \E d \in Docs, src \in SocketBranchNames, tgt \in SocketBranchNames :
          MergeBranch(c, d, src, tgt)

\* C10: authentication gate.  Until an authenticate message has been handled
\* on a connection, no join-document, leave-document, document-operation,
\* cursor-update, create-branch or merge-branch message from it changes room
\* membership, the presence registry, the operation log or the branch store,
\* and nothing it causes to be emitted reaches another connection.
C10_AuthenticationGate ==
    [][\A c \in Conns :
          (~authProcessed[c] /\ GatedMessage(c)) =>
             /\ UNCHANGED <<rooms, users, documentOperations, branches>>
             /\ \A i \in 1..Len(emits') :
                   Recipients(emits'[i], rooms', connected') \subseteq {c}]_vars

\* C10 witness: a connection that never authenticated has sent join-document
\* (the error went back to it alone) while another connection is in a room.
C10_Witness ==
    \E c \in Conns :
        /\ ~authProcessed[c]
        /\ emits = <<ToSocket(c, "error", [message |-> "Not authenticated"])>>
        /\ \E x \in Conns \ {c} : rooms[x] # {}

(***************************************************************************)
(* The capability check (src/lib/db/document-queries.ts:429-, wrapped by   *)
(* src/lib/auth/permissions.ts:28-42): what it would answer for a user and *)
(* a document.  The table is an input; the socket coordinator imports      *)
(* neither module.                                                         *)
(***************************************************************************)
NoPermission == "none"

\* The DocumentPermission a user holds on a document.
PermissionOf(userId, d) ==
    IF userId = "u1" THEN (IF d = "d1" THEN "write" ELSE NoPermission)
    ELSE IF userId = "u2" THEN (IF d = "d1" THEN "read" ELSE "admin")
    ELSE NoPermission

\* canReadDocument, canWriteDocument (permissions.ts:133-141)
canReadDocument(permission) == permission \in {"read", "write", "admin"}
canWriteDocument(permission) == permission \in {"write", "admin"}

HasEvent(emitted, event) ==
    \E i \in 1..Len(emitted) : emitted[i].event = event

\* C11: permission gate.  A join-document message is processed (room joined,
\* presence entry added, user-joined emitted) only if the capability check
\* grants the bound user read permission on the document, and a
\* document-operation message is processed (broadcast, appended to the
\* operation log) only if it grants the user write permission.
C11_PermissionGate ==
    [][\A c \in Conns, d \in Docs :
          /\ (JoinDocument(c, d) /\ HasEvent(emits', "user-joined"))
                => canReadDocument(PermissionOf(socketData[c].userId, d))
          /\ ((\E o \in SocketOperations, v \in ClientVersions :
                  DocumentOperation(c, d, o, v))
              /\ HasEvent(emits', "document-operation"))
                => canWriteDocument(PermissionOf(socketData[c].userId, d))]_vars

\* How many of the emit calls carrying `event` reach connection x.
Deliveries(x, event, emitted, roomsOf, isConnected) ==
    Cardinality({ i \in 1..Len(emitted) :
        emitted[i].event = event /\ x \in Recipients(emitted[i], roomsOf, isConnected) })

\* C12: broadcast scope.  For every document-operation or cursor-update
\* processed from connection c for document d, the event is delivered exactly
\* once to every other open connection in d's room and never to c itself nor
\* to a connection outside the room.
C12_BroadcastScope ==
    [][\A c \in Conns, d \in Docs :
          /\ (HasUserId(c) /\ \E o \in SocketOperations, v \in ClientVersions :
                                 DocumentOperation(c, d, o, v))
                => \A x \in Conns :
                      Deliveries(x, "document-operation", emits', rooms', connected')
                        = IF x # c /\ connected[x] /\ d \in rooms[x] THEN 1 ELSE 0
          /\ (HasUserId(c) /\ \E pos \in CursorPositions : CursorUpdate(c, d, pos))
                => \A x \in Conns :
                      Deliveries(x, "cursor-update", emits', rooms', connected')
                        = IF x # c /\ connected[x] /\ d \in rooms[x] THEN 1 ELSE 0]_vars

\* C12 witness: a cursor-update was processed while another open connection
\* was in the room it names.
C12_Witness ==
    /\ Len(emits) = 1
    /\ emits[1].event = "cursor-update"
    /\ \E x \in Conns \ {emits[1].conn} : connected[x] /\ emits[1].doc \in rooms[x]

\* C13: diff/apply round trip.  For all strings s1 and s2, empty, equal or
\* with overlapping common prefix and suffix, apply(s1, diff(s1, s2)) = s2.
C13_DiffRoundTrip ==
    ot.pc = "diffDone" => ot.result = ot.newContent

\* C13 witness: the diff of "aa" and "a", whose common prefix and common
\* suffix would overlap, has been applied.
C13_Witness ==
    /\ ot.pc = "diffDone"
    /\ ot.oldContent = <<"a", "a">>
    /\ ot.newContent = <<"a">>
    /\ ot.ops = <<Retain(1), Delete(1)>>

\* C14: compose equivalence.  For every string s, every a well-formed for s
\* and every b well-formed for apply(s, a),
\* apply(s, compose(a, b)) = apply(apply(s, a), b).
C14_ComposeEquivalence ==
    ot.pc = "composeDone" => ot.onePass = ot.twoPasses

\* What a DocumentManager holds, pending arrays by their contents.
SessionView(d) ==
    LET m == sessions.managers[d] IN
    [content |-> m.content, version |-> m.version,
     pendingOperations |->
        [i \in 1..Len(m.pendingOperations) |->
            [clientId |-> m.pendingOperations[i].clientId,
             ops |-> sessions.heap[m.pendingOperations[i].ops]]]]

\* A call on the manager of document d.
SessionCall(d) ==
    \/ \E c \in Clients, o \in SessionOpSeqs : SessionApplyNew(d, c, o)
    \/ \E c \in Clients, ref \in 1..MaxSessionCalls : SessionApplyHeld(d, c, ref)
    \/ \E c \in Clients : SessionApplyThrows(d, c)
    \/ \E c \in Clients : SessionAcknowledge(d, c)

\* C15: session isolation.  Any applyOperation or acknowledgeOperation call
\* on the DocumentManager of one document leaves the content, the version and
\* the pending operations of the DocumentManager of the other unchanged.
C15_SessionIsolation ==
    [][\A d \in Docs :
          SessionCall(d) => \A e \in Docs \ {d} : SessionView(e)' = SessionView(e)]_vars

\* The part of C15 about the socket coordinator: a message naming document d
\* leaves the operation log and the presence hash of every other document
\* as they were.
SocketDocumentIsolation ==
    [][\A c \in Conns, d \in Docs :
          (\/ JoinDocument(c, d)
           \/ LeaveDocument(c, d)
           \/ \E o \in SocketOperations, v \in ClientVersions : DocumentOperation(c, d, o, v)
           \/ \E pos \in CursorPositions : CursorUpdate(c, d, pos))
          => \A e \in Docs \ {d} :
                /\ documentOperations'[e] = documentOperations[e]
                /\ users'[e] = users[e]]_vars

\* The default branch of the document (document-queries.ts:42-46).
DefaultBranch == "main"

\* C16: branch head tracking.  After every successful version creation on a
\* branch, by POST /versions or as the merge version of mergeBranch, the
\* branch has a row whose headVersionId is the id of the version created.
C16_BranchHeadTracking ==
    \A r \in 1..Len(reqs) :
        (r = Len(reqs) /\ reqs[r].kind \in {"post", "merge"} /\ reqs[r].pc = "done") =>
            /\ \E i \in 1..Len(documentBranches) :
                  documentBranches[i].name = reqs[r].branchName
            /\ \A i \in 1..Len(documentBranches) :
                  documentBranches[i].name = reqs[r].branchName =>
                      documentBranches[i].headVersionId = reqs[r].mergeVersionId

\* C17: document current view.  Whenever no request is under way (and no
\* statement has thrown), the documents row's content and currentVersion are
\* those of the newest version on the default branch.
C17_DocumentCurrentView ==
    (/\ InFlight = {}
     /\ \A r \in 1..Len(reqs) : reqs[r].result # "500") =>
        \E i \in LatestOn(documentVersions, DefaultBranch) :
            /\ documents.content = documentVersions[i].content
            /\ documents.currentVersion = documentVersions[i].version

\* C18: version tree.  Every stored version other than the first version of
\* the document has a parentVersionId that is not null and names an existing
\* version.
C18_VersionTree ==
    \A i \in 2..Len(documentVersions) :
        /\ documentVersions[i].parentVersionId # NullId
        /\ \E j \in 1..Len(documentVersions) :
              documentVersions[j].id = documentVersions[i].parentVersionId

\* The versions a branch had when request r began, requests being served one
\* at a time.
VersionsAtCall(r, branchName) ==
    { i \in VersionsOn(documentVersions, branchName) : documentVersions[i].by < r }

\* C19: empty-branch merge.  A mergeBranch call whose source or target branch
\* has no versions fails with the empty-branch error, writes no version and
\* no merge record, and leaves the documents row as it was.
C19_EmptyBranchMerge ==
    \A r \in 1..Len(reqs) :
        (/\ reqs[r].kind = "merge"
         /\ reqs[r].pc # "fetchTarget"
         /\ \/ VersionsAtCall(r, reqs[r].sourceBranch) = {}
            \/ VersionsAtCall(r, reqs[r].branchName) = {}) =>
            /\ reqs[r].pc = "failed"
            /\ reqs[r].result = "EmptyBranch"
            /\ VersionsBy(r) = {}
            /\ MergesBy(r) = {}
            /\ r = Len(reqs) => documents = reqs[r].docBefore

\* C19 witness: after a version was created on main, a merge from the empty
\* branch feature into main has failed.
C19_Witness ==
    \E r \in 1..Len(reqs) :
        /\ r = Len(reqs)
        /\ reqs[r].kind = "merge"
        /\ reqs[r].sourceBranch = "feature"
        /\ reqs[r].branchName = "main"
        /\ reqs[r].result = "EmptyBranch"
        /\ Len(documentVersions) = 2
        /\ documents.currentVersion = 2

\* C20: the channel's merge goes through the branch manager.  A processed
\* merge-branch message emits branch-merged only when a merge version has
\* been created on the target branch in the version store; otherwise the
\* sender alone receives merge-conflict.
C20_ChannelMergeDelegates ==
    [][\A c \in Conns, d \in Docs, src \in SocketBranchNames, tgt \in SocketBranchNames :
          (HasUserId(c) /\ MergeBranch(c, d, src, tgt)) =>
             IF /\ Len(documentVersions') = Len(documentVersions) + 1
                /\ documentVersions'[Len(documentVersions')].branchName = tgt
             THEN HasEvent(emits', "branch-merged")
             ELSE /\ ~HasEvent(emits', "branch-merged")
                  /\ HasEvent(emits', "merge-conflict")
                  /\ \A i \in 1..Len(emits') :
                        Recipients(emits'[i], rooms', connected') \subseteq {c}]_vars

\* C21: presence leave is idempotent.  A processed leave-document for
\* (d, u), whether u has an entry or not (a second leave, or a leave without
\* a join), leaves no entry for u in d and every other entry as it was; when
\* u has no entry the presence registry does not change at all.
C21_LeaveIdempotent ==
    [][\A c \in Conns, d \in Docs :
          (HasUserId(c) /\ LeaveDocument(c, d)) =>
             /\ ~users'[d][socketData[c].userId].present
             /\ \A e \in Docs, u \in Users :
                   <<e, u>> # <<d, socketData[c].userId>> => users'[e][u] = users[e][u]
             /\ ~users[d][socketData[c].userId].present => users' = users]_vars

\* C21 witness: a connection has left a document it never joined (its only
\* earlier message was authenticate), and nothing went wrong.
C21_Witness ==
    \E c \in Conns, d \in Docs :
        /\ handled = 2
        /\ connected[c]
        /\ HasUserId(c)
        /\ socketData[c].documentId = NoDoc
        /\ emits = <<ToRoom(c, d, "user-left", [userId |-> socketData[c].userId])>>

\* The logged inserts at a position before that of operation o.
InsertsBefore(d, o) ==
    { i \in 1..Len(documentOperations[d]) :
        /\ documentOperations[d][i].type = "insert"
        /\ documentOperations[d][i].position < o.position }

\* C22: server-side transformation of stale operations.  Every operation in
\* the log was accepted after version 0, the version at which the log was
\* empty.  A document-operation with base version 0 whose position is
\* greater than that of a logged insert S is not broadcast in its original
\* form, and when S is the only logged operation its position is shifted
\* right by the length of S.
C22_StaleOperationTransformed ==
    [][\A c \in Conns, d \in Docs, o \in LogOperations :
          (HasUserId(c) /\ DocumentOperation(c, d, o, 0) /\ InsertsBefore(d, o) # {}) =>
             /\ emits'[1].payload.operation.position # o.position
             /\ Len(documentOperations[d]) = 1 =>
                   emits'[1].payload.operation.position
                      = o.position + documentOperations[d][1].length]_vars

\* C23: presence removal survives races.  An entry of the presence hash
\* that is absent becomes present only through a join-document of a
\* connection of that user: once a leave or disconnect has removed the
\* entry, no cursor-update that was under way brings it back.
C23_RemovalSurvivesRaces ==
    [][\A d \in Docs, u \in Users :
          (~users[d][u].present /\ users'[d][u].present) =>
             \E c \in Conns : socketData[c].userId = u /\ JoinDocument(c, d)]_vars

\* C24: transform has no side effects on stored operations.  A call on a
\* DocumentManager leaves every operation array that existed before it
\* element for element as it was (the arrays other clients' pending entries
\* refer to among them), and the array the caller built for the call holds
\* after the call what the caller put in it.
C24_TransformNoSideEffects ==
    [][\A d \in Docs :
          /\ SessionCall(d) =>
                \A ref \in 1..Len(sessions.heap) :
                    sessions'.heap[ref] = sessions.heap[ref]
          /\ \A c \in Clients, o \in SessionOpSeqs :
                SessionApplyNew(d, c, o) =>
                    sessions'.heap[Len(sessions.heap) + 1] = o]_vars

\* C25: non-concurrent operations are applied as submitted.  applyOperation
\* never reads clientVersion, so every call stands for one whose
\* clientVersion equals the current version.  Operations well-formed for
\* the current content are accepted unchanged: transformedOps is the
\* sequence submitted and the new content is apply(content, ops), whatever
\* other clients submitted before and whether or not it was acknowledged.
C25_NonConcurrentAsSubmitted ==
    (/\ call.kind = "apply"
     /\ call.isArray
     /\ WellFormed(call.before.content, call.operations)) =>
        /\ call.success
        /\ call.transformedOps = call.operations
        /\ call.newContent = apply(call.before.content, call.operations)

\* The POST /versions requests that have answered 201.
PostsDone == { r \in 1..Len(reqs) : reqs[r].kind = "post" /\ reqs[r].pc = "done" }

\* C26: concurrent version creation.  Under every interleaving of
\* version-creation requests for one document and branch, two created
\* versions have different version numbers, and once no request is under
\* way the document's currentVersion is the largest number created.
C26_ConcurrentVersionCreation ==
    /\ \A r1 \in PostsDone, r2 \in PostsDone :
          (r1 # r2 /\ reqs[r1].branchName = reqs[r2].branchName) =>
              reqs[r1].data.version # reqs[r2].data.version
    /\ (InFlight = {} /\ PostsDone # {}) =>
          \A r \in PostsDone : reqs[r].data.version <= documents.currentVersion

\* Another open connection of the same user is in the room of document d.
OtherConnectionJoined(c, d) ==
    \E c2 \in Conns \ {c} :
        /\ connected[c2]
        /\ socketData[c2].userId = socketData[c].userId
        /\ d \in rooms[c2]

\* C27: presence with several connections of one user.  While another
\* connection of user u is joined to document d, a leave-document for d or a
\* disconnect of a connection of u leaves u's entry in d's presence hash as
\* it is and emits no user-left.
C27_PresenceSeveralConnections ==
    [][\A c \in Conns, d \in Docs :
          (/\ HasUserId(c)
           /\ OtherConnectionJoined(c, d)
           /\ users[d][socketData[c].userId].present
           /\ \/ LeaveDocument(c, d)
              \/ socketData[c].documentId = d /\ Disconnect(c)) =>
              /\ users'[d][socketData[c].userId] = users[d][socketData[c].userId]
              /\ ~HasEvent(emits', "user-left")]_vars

\* C28: room membership is required to publish.  A document-operation or
\* cursor-update naming document d from a connection that is not in d's
\* room emits nothing to the room and leaves d's operation log as it was.
C28_MembershipRequired ==
    [][\A c \in Conns, d \in Docs :
          (/\ d \notin rooms[c]
           /\ \/ \E o \in SocketOperations, v \in ClientVersions :
                    DocumentOperation(c, d, o, v)
              \/ \E pos \in CursorPositions : CursorUpdate(c, d, pos)) =>
              /\ documentOperations'[d] = documentOperations[d]
              /\ \A i \in 1..Len(emits') : emits'[i].kind # "room"]_vars

\* C29: client authentication always completes.  With timers firing, the
\* promise of every authenticate call is settled in the end, true or false,
\* whatever connect, authenticated, error and connection-loss events and
\* disconnect() calls come in between.
C29_AuthenticateCompletes ==
    \A i \in 1..MaxAuthCalls :
        (Len(client.calls) >= i) ~>
            (Len(client.calls) >= i /\ client.calls[i].promise # "pending")

\* The reference semantics of an operation sequence: walk it over the
\* source with a read cursor, copying each retained span, emitting each
\* inserted text and skipping each deleted span.
RECURSIVE Walk(_, _, _, _)
Walk(source, operations, i, cursor) ==
    IF i > Len(operations) THEN <<>>
    ELSE LET op == operations[i] IN
         IF op.type = "retain"
         THEN SubSeq(source, cursor + 1, cursor + op.count)
                 \o Walk(source, operations, i + 1, cursor + op.count)
         ELSE IF op.type = "insert"
         THEN op.text \o Walk(source, operations, i + 1, cursor)
         ELSE Walk(source, operations, i + 1, cursor + op.count)

\* Total length of the inserted texts and total of the delete counts.
RECURSIVE TotalOf(_, _, _)
TotalOf(operations, type, i) ==
    IF i > Len(operations) THEN 0
    ELSE (IF operations[i].type # type THEN 0
          ELSE IF type = "insert" THEN Len(operations[i].text)
          ELSE operations[i].count)
         + TotalOf(operations, type, i + 1)

\* C30: apply matches the reference semantics.  For every string s and
\* every sequence well-formed for s, apply(s, ops) is the string the walk
\* gives, and its length is len(s) plus the inserted length minus the
\* deleted count.
C30_ApplyReference ==
    ot.pc = "applyDone" =>
        /\ ot.result = Walk(ot.s, ot.ops, 1, 0)
        /\ Len(ot.result) = Len(ot.s) + TotalOf(ot.ops, "insert", 1)
                                - TotalOf(ot.ops, "delete", 1)

\* [Retain(1), Insert("x"), Retain(1)] applied to "ab": one character longer.
C30_Witness ==
    /\ ot.pc = "applyDone"
    /\ ot.s = <<"a", "b">>
    /\ ot.ops = <<Retain(1), Insert(<<"x">>), Retain(1)>>
    /\ ot.result = <<"a", "x", "b">>

====
